---- MODULE Spec2Model ----
(***************************************************************************)
(* Model of the cost-calculation engine of the Ontario Employee Cost       *)
(* Calculator (src/app.py): class Employee with average_hourly_rate,       *)
(* cost_components and total_hourly_cost, and the Calculate handler that   *)
(* drives it.                                                              *)
(*                                                                         *)
(* Numbers.  The program computes in Python floats.  The model computes    *)
(* the same expressions, in the same order, over exact non-negative        *)
(* rationals <<n, d>> in lowest terms (d > 0), so that two numbers are     *)
(* equal iff their tuples are equal.  Rounding error of the floats is not  *)
(* modelled.  Division by zero raises ZeroDivisionError in Python: a       *)
(* method is modelled by the record [self, raised, val] of the Employee    *)
(* after the call, whether the call raised, and the value it returned.     *)
(***************************************************************************)
EXTENDS Integers, Sequences, FiniteSets, TLC

VARIABLES emp, ret

vars == <<emp, ret>>

----------------------------------------------------------------------------
(* Exact rational arithmetic standing for Python's float operators.        *)

RECURSIVE GCD(_, _)
GCD(a, b) == IF b = 0 THEN a ELSE GCD(b, a % b)

LCM(a, b) == (a \div GCD(a, b)) * b

Rat(n, d) == LET g == GCD(n, d) IN <<n \div g, d \div g>>

Zero == <<0, 1>>

Add(x, y) ==
    LET l == LCM(x[2], y[2])
    IN  Rat(x[1] * (l \div x[2]) + y[1] * (l \div y[2]), l)

Mul(x, y) ==
    LET g1 == GCD(x[1], y[2])
        g2 == GCD(y[1], x[2])
    IN  <<(x[1] \div g1) * (y[1] \div g2), (x[2] \div g2) * (y[2] \div g1)>>

\* x / y for y # 0
Div(x, y) == Mul(x, <<y[2], y[1]>>)

Leq(x, y) ==
    LET l == LCM(x[2], y[2])
    IN  x[1] * (l \div x[2]) <= y[1] * (l \div y[2])

Less(x, y) == Leq(x, y) /\ x # y

\* Python's min(x, y)
Min(x, y) == IF Leq(x, y) THEN x ELSE y

----------------------------------------------------------------------------
(* Module-level constants.                                                 *)

\* app.py:9-13  rates in percent: (5.95, 5.95, 1.64 * 1.4, 1.64)
fetch_contribution_rates ==
    LET cpp_employer_rate == Rat(595, 100)
        cpp_employee_rate == Rat(595, 100)
        ei_employee_rate  == Rat(164, 100)
        ei_employer_rate  == Mul(ei_employee_rate, Rat(14, 10))
    IN  <<cpp_employer_rate, cpp_employee_rate, ei_employer_rate, ei_employee_rate>>

CPP_MAX_ANNUAL  == Rat(405550, 100)
EI_MAX_EMPLOYEE == Rat(104912, 100)
EI_MAX_EMPLOYER == Rat(146877, 100)

W_CPP_EMPLOYER == "CPP employer cap reached."
W_CPP_EMPLOYEE == "CPP employee cap reached."
W_EI_EMPLOYER  == "EI employer cap reached."
W_EI_EMPLOYEE  == "EI employee cap reached."

CapNames == {W_CPP_EMPLOYER, W_CPP_EMPLOYEE, W_EI_EMPLOYER, W_EI_EMPLOYEE}

----------------------------------------------------------------------------
(* Input domains.  Hours are whole numbers (the form's integer inputs),    *)
(* money and percentages are rationals.                                    *)

BaseWages == {Zero, Rat(20, 1), Rat(200, 1)}

WeeklyHours == {0, 10, 40}

OvertimeHours == {0, 10}

\* (cpp_rate, ei_rate) pairs handed to the constructor: the pair the
\* Calculate handler passes, and a pair supplied by another caller.  At a
\* base wage of 20 and 10 weekly hours (annual earnings 10400) the CPP rate
\* 8111/208 makes the raw employer CPP exactly CPP_MAX_ANNUAL.
RatePairs == {<<fetch_contribution_rates[1], fetch_contribution_rates[3]>>, <<Rat(8111, 208), Rat(1, 1)>>}

VacationPcts == {Rat(4, 1)}

WsibRates == {Rat(130, 100)}

HealthBenefits == {Rat(2, 1)}

CellPhoneMonthly == {Rat(52, 1)}

FuelWeekly == {Rat(30, 1)}

\* Most warnings an Employee may hold before another call is modelled.
MaxWarnings == 8

----------------------------------------------------------------------------
(* class Employee                                                          *)

\* app.py:21-41  __init__ ; name and employment_type take no part in the
\* arithmetic and are left out.
Employee(base_wage, weekly_hours, overtime_hours, vacation_pct, cpp_rate, ei_rate, wsib_rate, health_benefits, cell_phone_monthly, fuel_weekly, apply_caps, apply_overtime, include_vacation, wsib_on_ot) ==
    [base_wage |-> base_wage, weekly_hours |-> weekly_hours,
     overtime_hours |-> overtime_hours, vacation_pct |-> vacation_pct,
     cpp_rate |-> cpp_rate, ei_rate |-> ei_rate, wsib_rate |-> wsib_rate,
     health_benefits |-> health_benefits,
     cell_phone_monthly |-> cell_phone_monthly, fuel_weekly |-> fuel_weekly,
     apply_caps |-> apply_caps, apply_overtime |-> apply_overtime,
     include_vacation |-> include_vacation, wsib_on_ot |-> wsib_on_ot,
     warnings |-> <<>>]

\* The constructor arguments an Employee was built from.
Inputs(self) == [self EXCEPT !.warnings = <<>>]

\* a Python int used in float arithmetic
Num(n) == <<n, 1>>

\* overtime_multiplier with the premium paid whatever apply_overtime says
overtime_multiplier_always(self) == Rat(15, 10)

\* app.py:44
overtime_multiplier(self) == IF self.apply_overtime THEN Rat(15, 10) ELSE Num(1)

\* app.py:46
total_hours(self) == self.weekly_hours + self.overtime_hours

\* app.py:43-48
average_hourly_rate(self) ==
    LET rate          == overtime_multiplier(self)
        overtime_wage == Mul(self.base_wage, rate)
        total_wages   == Add(Mul(Num(self.weekly_hours), self.base_wage),
                             Mul(Num(self.overtime_hours), overtime_wage))
    IN  IF total_hours(self) # 0
        THEN Div(total_wages, Num(total_hours(self)))
        ELSE self.base_wage

\* app.py:52, 93
annual_hours(self) == (self.weekly_hours + self.overtime_hours) * 52

(* The body of cost_components is modelled local by local: an operator per  *)
(* assignment, taking the locals it reads (base, annual_earnings, the four  *)
(* amounts) as parameters, so that each local is computed once.             *)

\* app.py:53
annual_earnings(self, base) == Mul(base, Num(annual_hours(self)))

\* cpp_ee_raw computed from the caller's cpp_rate
cpp_ee_raw_supplied(self, earnings) == Div(Mul(earnings, self.cpp_rate), Num(100))

\* app.py:56-59  raw annual statutory amounts
cpp_emp_raw(self, earnings) == Div(Mul(earnings, self.cpp_rate), Num(100))

cpp_ee_raw(self, earnings) == Div(Mul(earnings, Rat(595, 100)), Num(100))

ei_emp_raw(self, earnings) == Div(Mul(earnings, self.ei_rate), Num(100))

ei_ee_raw(self, earnings) == Div(Mul(earnings, Rat(164, 100)), Num(100))

\* app.py:61-65  the amounts after "if self.apply_caps: x = min(x, MAX)"
cpp_emp(self, raw) == IF self.apply_caps THEN Min(raw, CPP_MAX_ANNUAL) ELSE raw

cpp_ee(self, raw) == IF self.apply_caps THEN Min(raw, CPP_MAX_ANNUAL) ELSE raw

ei_emp(self, raw) == IF self.apply_caps THEN Min(raw, EI_MAX_EMPLOYER) ELSE raw

\* ei_ee clamped to the employer's maximum
ei_ee_employer_max(self, raw) == IF self.apply_caps THEN Min(raw, EI_MAX_EMPLOYER) ELSE raw

ei_ee(self, raw) == IF self.apply_caps THEN Min(raw, EI_MAX_EMPLOYEE) ELSE raw

\* app.py:56-65  the locals cpp_emp, cpp_ee, ei_emp, ei_ee when line 66 is
\* reached
amounts(self, earnings) ==
    [cpp_emp |-> cpp_emp(self, cpp_emp_raw(self, earnings)),
     cpp_ee  |-> cpp_ee(self, cpp_ee_raw(self, earnings)),
     ei_emp  |-> ei_emp(self, ei_emp_raw(self, earnings)),
     ei_ee   |-> ei_ee(self, ei_ee_raw(self, earnings))]

\* cap_warnings with the EI employer amount compared to the employee maximum
cap_warnings_wrong_max(self, amt) ==
    IF self.apply_caps
    THEN (IF amt.cpp_emp = CPP_MAX_ANNUAL THEN <<W_CPP_EMPLOYER>> ELSE <<>>)
         \o (IF amt.cpp_ee = CPP_MAX_ANNUAL THEN <<W_CPP_EMPLOYEE>> ELSE <<>>)
         \o (IF amt.ei_emp = EI_MAX_EMPLOYEE THEN <<W_EI_EMPLOYER>> ELSE <<>>)
         \o (IF amt.ei_ee = EI_MAX_EMPLOYEE THEN <<W_EI_EMPLOYEE>> ELSE <<>>)
    ELSE <<>>

\* app.py:66-69  the warnings one call appends, in order
cap_warnings(self, amt) ==
    IF self.apply_caps
    THEN (IF amt.cpp_emp = CPP_MAX_ANNUAL THEN <<W_CPP_EMPLOYER>> ELSE <<>>)
         \o (IF amt.cpp_ee = CPP_MAX_ANNUAL THEN <<W_CPP_EMPLOYEE>> ELSE <<>>)
         \o (IF amt.ei_emp = EI_MAX_EMPLOYER THEN <<W_EI_EMPLOYER>> ELSE <<>>)
         \o (IF amt.ei_ee = EI_MAX_EMPLOYEE THEN <<W_EI_EMPLOYEE>> ELSE <<>>)
    ELSE <<>>

\* app.py:73
vacation_pay(self, base) ==
    IF self.include_vacation
    THEN Div(Mul(base, self.vacation_pct), Num(100))
    ELSE Zero

\* wsib computed on the blended rate whatever wsib_on_ot says
wsib_always_blended(self, base) == Div(Mul(base, self.wsib_rate), Num(100))

\* app.py:78-79
wsib(self, base) ==
    IF self.wsib_on_ot \/ self.overtime_hours = 0
    THEN Div(Mul(base, self.wsib_rate), Num(100))
    ELSE Div(Mul(self.base_wage, self.wsib_rate), Num(100))

\* app.py:82-83
fuel_allowance(self) ==
    IF total_hours(self) # 0
    THEN Div(self.fuel_weekly, Num(total_hours(self)))
    ELSE Zero

K_BASE == "Base Wage"
K_VAC  == "Vacation Pay"
K_CPP_EMP == "CPP (Employer)"
K_CPP_EE  == "CPP (Employee)"
K_EI_EMP  == "EI (Employer)"
K_EI_EE   == "EI (Employee)"
K_WSIB == "WSIB"
K_HB   == "Health Benefits"
K_CELL == "Cell Phone ($/hr from monthly)"
K_FUEL == "Fuel Allowance ($/hr from weekly)"

\* app.py:71-84  the dictionary returned when no division raises
components(self, base, amt) ==
    (K_BASE :> base)
    @@ (K_VAC :> vacation_pay(self, base))
    @@ (K_CPP_EMP :> Div(amt.cpp_emp, Num(annual_hours(self))))
    @@ (K_CPP_EE :> Div(amt.cpp_ee, Num(annual_hours(self))))
    @@ (K_EI_EMP :> Div(amt.ei_emp, Num(annual_hours(self))))
    @@ (K_EI_EE :> Div(amt.ei_ee, Num(annual_hours(self))))
    @@ (K_WSIB :> wsib(self, base))
    @@ (K_HB :> self.health_benefits)
    @@ (K_CELL :> Div(Mul(self.cell_phone_monthly, Num(12)), Num(annual_hours(self))))
    @@ (K_FUEL :> fuel_allowance(self))

\* app.py:74-77, 81  the divisions by annual_hours raise ZeroDivisionError
\* when annual_hours is 0
divides_by_zero(self) == annual_hours(self) = 0

\* The value standing for "no value" after a raise.
None == <<>>

\* app.py:66-84  from the locals base and the four amounts: the Employee
\* after the call (warnings are appended before the dictionary is built) and
\* what the call returns
warn_and_return(self, base, amt) ==
    [self   |-> [self EXCEPT !.warnings = self.warnings \o cap_warnings(self, amt)],
     raised |-> divides_by_zero(self),
     val    |-> IF divides_by_zero(self) THEN None ELSE components(self, base, amt)]

\* app.py:52-84  from the local base
cost_components_from(self, base) ==
    warn_and_return(self, base, amounts(self, annual_earnings(self, base)))

\* app.py:50-84  cost_components
cost_components(self) == cost_components_from(self, average_hourly_rate(self))

\* EmployerKeys without the fuel allowance
EmployerKeys_no_fuel == <<K_BASE, K_VAC, K_CPP_EMP, K_EI_EMP, K_WSIB, K_HB, K_CELL>>

\* app.py:88-91  the keys summed into the employer total, in order
EmployerKeys == <<K_BASE, K_VAC, K_CPP_EMP, K_EI_EMP, K_WSIB, K_HB, K_CELL, K_FUEL>>

\* Python's sum(list): 0 + l[1] + l[2] + ...
RECURSIVE sum(_)
sum(l) == IF l = <<>> THEN Zero ELSE Add(sum(SubSeq(l, 1, Len(l) - 1)), l[Len(l)])

\* app.py:88-91
employer_total(comps) == sum([i \in 1..Len(EmployerKeys) |-> comps[EmployerKeys[i]]])

\* app.py:92
employee_total(comps) == Add(comps[K_CPP_EE], comps[K_EI_EE])

\* totals with the annual figures taken over the regular hours only
totals_regular_hours(self, comps) ==
    <<employer_total(comps), employee_total(comps),
      Mul(employer_total(comps), Num(self.weekly_hours * 52)),
      Mul(employee_total(comps), Num(self.weekly_hours * 52))>>

\* app.py:88-94  the tuple built from the dictionary comps:
\* (employer, employee, employer * annual_hours, employee * annual_hours)
totals(self, comps) ==
    <<employer_total(comps), employee_total(comps),
      Mul(employer_total(comps), Num(annual_hours(self))),
      Mul(employee_total(comps), Num(annual_hours(self)))>>

\* app.py:87-94  what follows "comps = self.cost_components()", r being the
\* outcome of that call; an exception of cost_components propagates
after_cost_components(self, r) ==
    [self   |-> r.self,
     raised |-> r.raised,
     val    |-> IF r.raised THEN None ELSE totals(self, r.val)]

\* app.py:86-94  total_hourly_cost
total_hourly_cost(self) == after_cost_components(self, cost_components(self))

----------------------------------------------------------------------------
(* State.                                                                  *)
(*   emp  the Employee object; emp.warnings is the only field a call       *)
(*        changes.  The Calculate handler lists emp.warnings as they are   *)
(*        when it ends.                                                    *)
(*   ret  the last method call: its name, who made it (a direct caller or  *)
(*        the Calculate handler), the constructor arguments of the         *)
(*        Employee it ran on, whether it raised, the value returned and    *)
(*        the Employee's warnings when it ended                            *)

NoCall == [op |-> "none", by |-> "none", self |-> None, raised |-> FALSE, val |-> None, warnings |-> <<>>]

Employees ==
    {Employee(bw, wh, ot, vac, rp[1], rp[2], wsb, hb, cp, fu, cap, omt, vacf, wsbf) :
        bw \in BaseWages, wh \in WeeklyHours, ot \in OvertimeHours,
        vac \in VacationPcts, rp \in RatePairs, wsb \in WsibRates,
        hb \in HealthBenefits, cp \in CellPhoneMonthly, fu \in FuelWeekly,
        cap \in BOOLEAN, omt \in BOOLEAN, vacf \in BOOLEAN, wsbf \in BOOLEAN}

Init ==
    /\ emp \in Employees
    /\ ret = NoCall

\* Employee(...) called again with other weekly hours and contribution
\* rates, every other argument as before (app.py:21-41).
NewEmployee(wh, rp) ==
    /\ emp' = Employee(emp.base_wage, wh, emp.overtime_hours, emp.vacation_pct,
                       rp[1], rp[2], emp.wsib_rate, emp.health_benefits,
                       emp.cell_phone_monthly, emp.fuel_weekly, emp.apply_caps,
                       emp.apply_overtime, emp.include_vacation, emp.wsib_on_ot)
    /\ UNCHANGED ret

\* emp.average_hourly_rate()
CallAverageHourlyRate ==
    /\ ret' = [op |-> "average_hourly_rate", by |-> "caller", self |-> Inputs(emp),
               raised |-> FALSE, val |-> average_hourly_rate(emp),
               warnings |-> emp.warnings]
    /\ UNCHANGED emp

\* emp.cost_components()
CallCostComponents ==
    /\ Len(emp.warnings) + 4 <= MaxWarnings
    /\ \E r \in {cost_components(emp)} :
           /\ emp' = r.self
           /\ ret' = [op |-> "cost_components", by |-> "caller", self |-> Inputs(emp),
                      raised |-> r.raised, val |-> r.val,
                      warnings |-> r.self.warnings]

\* emp.total_hourly_cost()
CallTotalHourlyCost ==
    /\ Len(emp.warnings) + 4 <= MaxWarnings
    /\ \E r \in {total_hourly_cost(emp)} :
           /\ emp' = r.self
           /\ ret' = [op |-> "total_hourly_cost", by |-> "caller", self |-> Inputs(emp),
                      raised |-> r.raised, val |-> r.val,
                      warnings |-> r.self.warnings]

\* app.py:151-166  the Calculate button: build the Employee from the form
\* with the rates of fetch_contribution_rates, call total_hourly_cost, then
\* cost_components for the table, then list emp.warnings.  An exception
\* ends the handler where it is raised.
Calculate(wh) ==
    LET rates == fetch_contribution_rates
        cpp_r == rates[1]
        ei_r  == rates[3]
        e0 == Employee(emp.base_wage, wh, emp.overtime_hours, emp.vacation_pct,
                       cpp_r, ei_r, emp.wsib_rate, emp.health_benefits,
                       emp.cell_phone_monthly, emp.fuel_weekly, emp.apply_caps,
                       emp.apply_overtime, emp.include_vacation, emp.wsib_on_ot)
    IN  \E t \in {total_hourly_cost(e0)} :
           IF t.raised
           THEN /\ emp' = t.self
                /\ ret' = [op |-> "total_hourly_cost", by |-> "Calculate",
                           self |-> Inputs(e0), raised |-> TRUE, val |-> None,
                           warnings |-> t.self.warnings]
           ELSE \E c \in {cost_components(t.self)} :
                   /\ emp' = c.self
                   /\ ret' = [op |-> "cost_components", by |-> "Calculate",
                              self |-> Inputs(e0), raised |-> c.raised, val |-> c.val,
                              warnings |-> c.self.warnings]

Next ==
    \/ \E wh \in WeeklyHours, rp \in RatePairs : NewEmployee(wh, rp)
    \/ CallAverageHourlyRate
    \/ CallCostComponents
    \/ CallTotalHourlyCost
    \/ \E wh \in WeeklyHours : Calculate(wh)

Spec == Init /\ [][Next]_vars

TypeOK ==
    /\ emp.weekly_hours \in WeeklyHours
    /\ emp.warnings \in Seq(CapNames)
    /\ ret.op \in {"none", "average_hourly_rate", "cost_components", "total_hourly_cost"}
    /\ ret.by \in {"none", "caller", "Calculate"}

----------------------------------------------------------------------------
(* Properties.                                                             *)

\* The number of times w occurs in the sequence ws.
Count(ws, w) == Cardinality({i \in 1..Len(ws) : ws[i] = w})

\* C1: for an Employee with weekly_hours + overtime_hours = 0, cost_components
\* and total_hourly_cost return without raising; Base Wage is base_wage, the
\* CPP, EI, Cell Phone and Fuel Allowance components are 0, and there are no
\* warnings.
C1_ZeroHoursDefined ==
    (ret.op \in {"cost_components", "total_hourly_cost"}
                /\ ret.self.weekly_hours + ret.self.overtime_hours = 0)
        => /\ ~ret.raised
           /\ ret.warnings = <<>>
           /\ ret.op = "cost_components" =>
                 /\ ret.val[K_BASE] = ret.self.base_wage
                 /\ \A k \in {K_CPP_EMP, K_CPP_EE, K_EI_EMP, K_EI_EE, K_CELL, K_FUEL} :
                        ret.val[k] = Zero

\* C2: a second call of a method with identical input (on the same Employee,
\* or on an Employee built from the same arguments) returns the same value
\* and leaves the same warnings sequence as the call before it.
C2_Idempotent ==
    [][(ret.op # "none" /\ ret'.op = ret.op /\ ret'.self = ret.self)
          => /\ ret'.raised = ret.raised
             /\ ret'.val = ret.val
             /\ ret'.warnings = ret.warnings]_vars

\* C3: in every reachable state the warnings of the Employee hold at most 4
\* entries and name each of the four caps at most once.
C3_WarningsBounded ==
    /\ Len(emp.warnings) <= 4
    /\ \A w \in CapNames : Count(emp.warnings, w) <= 1

----------------------------------------------------------------------------
(* Vocabulary of the remaining properties, written from the claims.        *)

\* (weekly_hours + overtime_hours) * 52 of the arguments s
AnnualHours(s) == (s.weekly_hours + s.overtime_hours) * 52

\* The blended rate of the arguments s.
Blended(s) ==
    LET m == IF s.apply_overtime THEN Rat(3, 2) ELSE Num(1)
        h == s.weekly_hours + s.overtime_hours
    IN  IF h = 0
        THEN s.base_wage
        ELSE Div(Add(Mul(Num(s.weekly_hours), s.base_wage),
                     Mul(Num(s.overtime_hours), Mul(s.base_wage, m))), Num(h))

\* Percentage pct of the annual earnings of s.
PctOfEarnings(s, pct) == Div(Mul(Mul(Blended(s), Num(AnnualHours(s))), pct), Num(100))

\* The four statutory lines of the arguments s: warning, component key,
\* maximum, and raw annual amount.
Lines(s) ==
    { [w |-> W_CPP_EMPLOYER, k |-> K_CPP_EMP, max |-> Rat(405550, 100), raw |-> PctOfEarnings(s, s.cpp_rate)],
      [w |-> W_CPP_EMPLOYEE, k |-> K_CPP_EE, max |-> Rat(405550, 100), raw |-> PctOfEarnings(s, Rat(595, 100))],
      [w |-> W_EI_EMPLOYER, k |-> K_EI_EMP, max |-> Rat(146877, 100), raw |-> PctOfEarnings(s, s.ei_rate)],
      [w |-> W_EI_EMPLOYEE, k |-> K_EI_EE, max |-> Rat(104912, 100), raw |-> PctOfEarnings(s, Rat(164, 100))] }

\* The annual amount of component k in the dictionary returned by call r.
Annual(r, k) == Mul(r.val[k], Num(AnnualHours(r.self)))

\* The annual amount x as dollars per hour of the arguments s.
PerHour(s, x) == Div(x, Num(AnnualHours(s)))

\* A step after which the last call is a cost_components call, by a direct
\* caller or by the Calculate handler, that returned a dictionary.
CostComponentsReturns ==
    /\ ret' # ret
    /\ ret'.op = "cost_components"
    /\ ~ret'.raised

\* A step in which a direct caller calls cost_components on a fresh Employee.
FreshCostComponents ==
    /\ emp.warnings = <<>>
    /\ ret'.op = "cost_components"
    /\ ret'.by = "caller"
    /\ ret'.self = Inputs(emp)
    /\ emp'.warnings = ret'.warnings
    /\ CallCostComponents

\* What claim C4 says of the outcome r of one cost_components call on a
\* fresh Employee; reached(raw, max) is the condition under which the line's
\* warning is appended.
CapOutcome(r, reached(_, _)) ==
    /\ \A l \in Lines(r.self) :
          /\ Count(r.warnings, l.w) = IF r.self.apply_caps /\ reached(l.raw, l.max) THEN 1 ELSE 0
          /\ ~r.raised =>
                r.val[l.k] = PerHour(r.self, IF r.self.apply_caps /\ reached(l.raw, l.max) THEN l.max ELSE l.raw)
    /\ (/\ r.self.apply_caps
        /\ \A l \in Lines(r.self) : (l.w = W_CPP_EMPLOYER) <=> Less(l.max, l.raw))
          => /\ r.val[K_CPP_EMP] = PerHour(r.self, Rat(405550, 100))
             /\ r.warnings = <<W_CPP_EMPLOYER>>

Exceeds(raw, max) == Less(max, raw)

Reaches(raw, max) == Leq(max, raw)

\* C4 (as claimed): in one cost_components call on a fresh Employee a line's
\* warning is appended exactly when apply_caps holds and the raw amount is
\* strictly greater than the maximum; otherwise the amount is unclamped.
C4_WarningIffExceeds ==
    [][FreshCostComponents => CapOutcome(ret', Exceeds)]_vars

\* C4 (amended): in one cost_components call on a fresh Employee a line's
\* warning is appended, once, exactly when apply_caps holds and the raw amount
\* is greater than or equal to the maximum; the component is then the maximum
\* over annualHours, and otherwise the raw amount over annualHours.  When only raw CPP-employer exceeds
\* 4055.50, CPP (Employer) is 4055.50/annualHours and the warnings are the
\* one CPP employer notice.
C4_WarningIffReaches ==
    [][FreshCostComponents => CapOutcome(ret', Reaches)]_vars

\* C4 witness: a fresh call returned with only the CPP employer line above
\* its maximum.
C4_Witness ==
    /\ ret.op = "cost_components" /\ ret.by = "caller" /\ ~ret.raised
    /\ ret.self.apply_caps
    /\ \A l \in Lines(ret.self) : (l.w = W_CPP_EMPLOYER) <=> Less(l.max, l.raw)
    /\ ret.warnings = <<W_CPP_EMPLOYER>>

\* a and b are the same arguments but for weekly_hours
SameButWeeklyHours(a, b) == [a EXCEPT !.weekly_hours = b.weekly_hours] = b

SumsOf(t, c) ==
    /\ t[1] = Add(c[K_BASE], Add(c[K_VAC], Add(c[K_CPP_EMP], Add(c[K_EI_EMP],
              Add(c[K_WSIB], Add(c[K_HB], Add(c[K_CELL], c[K_FUEL])))))))
    /\ t[2] = Add(c[K_CPP_EE], c[K_EI_EE])

\* C6: the employer hourly total of total_hourly_cost is the sum of the eight
\* employer-side components of cost_components and the employee hourly total
\* is CPP (Employee) + EI (Employee).
C6_TotalsAreSums ==
    (ret.op = "total_hourly_cost" /\ ~ret.raised) =>
        SumsOf(ret.val, cost_components(ret.self).val)

\* No component of the dictionary c is zero.
NoneZero(c) == \A k \in DOMAIN c : c[k] # Zero

\* C6 witness: total_hourly_cost returned with no component equal to zero.
C6_Witness ==
    /\ ret.op = "total_hourly_cost" /\ ~ret.raised
    /\ NoneZero(cost_components(ret.self).val)

\* C7: total_hourly_cost returns annual totals equal to the hourly totals
\* times (weekly_hours + overtime_hours) * 52.
C7_AnnualTotals ==
    (ret.op = "total_hourly_cost" /\ ~ret.raised) =>
        /\ ret.val[3] = Mul(ret.val[1], Num(AnnualHours(ret.self)))
        /\ ret.val[4] = Mul(ret.val[2], Num(AnnualHours(ret.self)))

\* C7 witness: total_hourly_cost returned for an Employee with regular and
\* overtime hours and non-zero totals.
C7_Witness ==
    /\ ret.op = "total_hourly_cost" /\ ~ret.raised
    /\ ret.self.weekly_hours > 0 /\ ret.self.overtime_hours > 0
    /\ ret.val[3] # Zero /\ ret.val[4] # Zero

\* C8: average_hourly_rate returns base_wage when there are no hours and the
\* hours-weighted mean of base_wage and base_wage * m otherwise (22 for base 20,
\* 40 + 10 hours, premium on); this rate is the Base Wage component and the
\* base of vacation pay and of annual earnings.
C8_BlendedRate ==
    /\ ret.op = "average_hourly_rate" =>
          /\ ret.val = Blended(ret.self)
          /\ AnnualHours(ret.self) = 0 => ret.val = ret.self.base_wage
          /\ (/\ ret.self.base_wage = Num(20) /\ ret.self.weekly_hours = 40
              /\ ret.self.overtime_hours = 10 /\ ret.self.apply_overtime)
                => ret.val = Num(22)
    /\ (ret.op = "cost_components" /\ ~ret.raised) =>
          /\ ret.val[K_BASE] = Blended(ret.self)
          /\ ret.val[K_VAC] = IF ret.self.include_vacation
                              THEN Div(Mul(Blended(ret.self), ret.self.vacation_pct), Num(100))
                              ELSE Zero
          /\ ~ret.self.apply_caps =>
                \A l \in Lines(ret.self) : ret.val[l.k] = PerHour(ret.self, l.raw)

\* C8 witness: average_hourly_rate returned 22 for base 20, 40 + 10 hours.
C8_Witness ==
    /\ ret.op = "average_hourly_rate"
    /\ ret.self.base_wage = Num(20) /\ ret.self.weekly_hours = 40
    /\ ret.self.overtime_hours = 10 /\ ret.self.apply_overtime
    /\ ret.val = Num(22)

\* The WSIB component of the arguments s with wsib_on_ot set to flag.
WsibWith(s, flag) == cost_components([s EXCEPT !.wsib_on_ot = flag]).val[K_WSIB]

\* C9: WSIB is blended rate * wsib_rate/100 when wsib_on_ot holds or there is
\* no overtime, and base_wage * wsib_rate/100 otherwise; with overtime, weekly
\* hours, premium, base wage and WSIB rate all positive it is strictly smaller
\* with wsib_on_ot off than with wsib_on_ot on.
C9_Wsib ==
    (ret.op = "cost_components" /\ ~ret.raised) =>
        /\ ret.val[K_WSIB] =
              IF ret.self.wsib_on_ot \/ ret.self.overtime_hours = 0
              THEN Div(Mul(Blended(ret.self), ret.self.wsib_rate), Num(100))
              ELSE Div(Mul(ret.self.base_wage, ret.self.wsib_rate), Num(100))
        /\ (/\ ret.self.overtime_hours > 0 /\ ret.self.weekly_hours > 0
            /\ ret.self.apply_overtime
            /\ ret.self.base_wage # Zero /\ ret.self.wsib_rate # Zero)
              => /\ ret.val[K_WSIB] = WsibWith(ret.self, ret.self.wsib_on_ot)
                 /\ Less(WsibWith(ret.self, FALSE), WsibWith(ret.self, TRUE))

\* C9 witness: cost_components returned, WSIB off overtime, for an Employee
\* with overtime at the premium and a positive base wage and WSIB rate.
C9_Witness ==
    /\ ret.op = "cost_components" /\ ~ret.raised
    /\ ~ret.self.wsib_on_ot /\ ret.self.apply_overtime
    /\ ret.self.overtime_hours > 0 /\ ret.self.weekly_hours > 0
    /\ ret.self.base_wage # Zero /\ ret.self.wsib_rate # Zero
    /\ Less(ret.val[K_WSIB], WsibWith(ret.self, TRUE))

\* a and b are the same arguments but for cpp_rate and ei_rate
SameButRates(a, b) == [a EXCEPT !.cpp_rate = b.cpp_rate, !.ei_rate = b.ei_rate] = b

\* C10: two Employees that differ only in cpp_rate and ei_rate get the same
\* CPP (Employee) and EI (Employee) components and the same employee hourly
\* and annual totals, both from annual earnings at 5.95% and 1.64%; the
\* employer-side CPP and EI come from the supplied cpp_rate and ei_rate.
C10_EmployeeSideFixedRates ==
    [][(ret' # ret /\ ret'.op \in {"cost_components", "total_hourly_cost"} /\ ~ret'.raised) =>
          /\ ret'.op = "cost_components" =>
                \A l \in Lines(ret'.self) :
                    ret'.val[l.k] = PerHour(ret'.self, IF ret'.self.apply_caps THEN Min(l.raw, l.max) ELSE l.raw)
          /\ (ret.op = ret'.op /\ ~ret.raised /\ SameButRates(ret.self, ret'.self)) =>
                IF ret'.op = "cost_components"
                THEN ret'.val[K_CPP_EE] = ret.val[K_CPP_EE] /\ ret'.val[K_EI_EE] = ret.val[K_EI_EE]
                ELSE ret'.val[2] = ret.val[2] /\ ret'.val[4] = ret.val[4]]_vars

\* C10 witness: cost_components returned for an Employee built with rates
\* other than those of fetch_contribution_rates, its employee-side components
\* non-zero and its employer-side CPP different from its employee-side CPP.
C10_Witness ==
    /\ ret.op = "cost_components" /\ ~ret.raised
    /\ ret.self.cpp_rate # fetch_contribution_rates[1]
    /\ ret.self.ei_rate # fetch_contribution_rates[3]
    /\ ret.val[K_CPP_EE] # Zero /\ ret.val[K_EI_EE] # Zero
    /\ ret.val[K_CPP_EMP] # ret.val[K_CPP_EE]
    /\ ret.val[K_CPP_EE] = cost_components([ret.self EXCEPT !.cpp_rate = fetch_contribution_rates[1], !.ei_rate = fetch_contribution_rates[3]]).val[K_CPP_EE]

====
